---------------------------- MODULE Spec2Model ----------------------------
(***************************************************************************)
(* Model of release/make_scoop_manifest.py: the script runs                *)
(* `cargo metadata`, decodes and parses its standard output, reads the     *)
(* version and the description of the first package, formats the release   *)
(* URLs, builds the Scoop manifest and prints it as indented JSON.         *)
(*                                                                         *)
(* Texts are TLA+ strings, one character per code point.  JSON values are  *)
(* tagged records, a Python dict is the sequence of its <<key, value>>     *)
(* pairs in insertion order.                                               *)
(***************************************************************************)
EXTENDS Integers, Sequences, FiniteSets, TLC

(***************************************************************************)
(* Bounds of the model's input space.                                      *)
(***************************************************************************)
MaxVersionLen == 2
MaxDescLen == 1

(***************************************************************************)
(* Texts.                                                                  *)
(***************************************************************************)
At(s, i) == SubSeq(s, i, i)

From(s, i) == SubSeq(s, i, Len(s))

StartsWith(s, i, p) == /\ i + Len(p) - 1 <= Len(s)
                       /\ SubSeq(s, i, i + Len(p) - 1) = p

RECURSIVE Strings(_, _)
Strings(alphabet, n) ==
    IF n = 0 THEN {""}
    ELSE Strings(alphabet, n - 1)
           \cup {s \o c : s \in Strings(alphabet, n - 1), c \in alphabet}

(***************************************************************************)
(* JSON values as Python's json module represents them.                    *)
(***************************************************************************)
Str(s) == [t |-> "str", s |-> s]
Num(n) == [t |-> "int", n |-> n]
List(l) == [t |-> "list", l |-> l]
Dict(m) == [t |-> "dict", m |-> m]
None == [t |-> "None"]
True == [t |-> "True"]
False == [t |-> "False"]
NaN == [t |-> "nan"]

Keys(d) == {d.m[i][1] : i \in 1..Len(d.m)}

Lookup(d, k) == d.m[CHOOSE i \in 1..Len(d.m) : d.m[i][1] = k][2]

\* dict[k] = v : an existing key keeps its position, a new one goes last
SetItem(m, k, v) ==
    IF \E i \in 1..Len(m) : m[i][1] = k
    THEN [i \in 1..Len(m) |-> IF m[i][1] = k THEN <<k, v>> ELSE m[i]]
    ELSE Append(m, <<k, v>>)

(***************************************************************************)
(* Characters.  Hex4 is the \uXXXX code of the characters of the model's   *)
(* alphabet that have no short escape.                                     *)
(***************************************************************************)
Whitespace == {" ", "\t", "\n", "\r"}
Control == {"\t", "\n", "\r"}
NonAscii == {"é"}
DigitChars == {At("0123456789", d + 1) : d \in 0..9}

DigitChar(d) == At("0123456789", d + 1)
DigitVal(c) == CHOOSE d \in 0..9 : DigitChar(d) = c

Hex4(c) == CASE c = "é" -> "00e9"

Unhex4(h) == CHOOSE c \in NonAscii : Hex4(c) = h

RECURSIVE Digits(_)
Digits(n) == IF n < 10 THEN DigitChar(n)
             ELSE Digits(n \div 10) \o DigitChar(n % 10)

(***************************************************************************)
(* json.dumps(obj, indent=4): ensure_ascii escaping, ", " replaced by a    *)
(* newline and the indentation, ": " between key and value, allow_nan.     *)
(***************************************************************************)
EscapeAscii(c) ==
    CASE c = "\"" -> "\\\""
      [] c = "\\" -> "\\\\"
      [] c = "\n" -> "\\n"
      [] c = "\r" -> "\\r"
      [] c = "\t" -> "\\t"
      [] c \in NonAscii -> "\\u" \o Hex4(c)
      [] OTHER -> c

\* the character-wise escape of s (the text is split in halves to keep the
\* evaluation shallow)
RECURSIVE EscapeBody(_)
EscapeBody(s) ==
    IF Len(s) = 0 THEN ""
    ELSE IF Len(s) = 1 THEN EscapeAscii(s)
    ELSE EscapeBody(SubSeq(s, 1, Len(s) \div 2))
           \o EscapeBody(From(s, Len(s) \div 2 + 1))

EncodeString(s) == "\"" \o EscapeBody(s) \o "\""

RECURSIVE Indent(_)
Indent(level) == IF level = 0 THEN "" ELSE "    " \o Indent(level - 1)

RECURSIVE Join(_, _)
Join(parts, sep) ==
    IF Len(parts) = 0 THEN ""
    ELSE IF Len(parts) = 1 THEN parts[1]
    ELSE parts[1] \o sep \o Join(Tail(parts), sep)

RECURSIVE Encode(_, _)
Encode(v, level) ==
    CASE v.t = "str" -> EncodeString(v.s)
      [] v.t = "None" -> "null"
      [] v.t = "True" -> "true"
      [] v.t = "False" -> "false"
      [] v.t = "int" -> Digits(v.n)
      [] v.t = "nan" -> "NaN"
      [] v.t = "list" ->
           IF Len(v.l) = 0 THEN "[]"
           ELSE "[\n" \o Indent(level + 1)
                \o Join([i \in 1..Len(v.l) |-> Encode(v.l[i], level + 1)],
                        ",\n" \o Indent(level + 1))
                \o "\n" \o Indent(level) \o "]"
      [] v.t = "dict" ->
           IF Len(v.m) = 0 THEN "{}"
           ELSE "{\n" \o Indent(level + 1)
                \o Join([i \in 1..Len(v.m) |->
                           EncodeString(v.m[i][1]) \o ": "
                             \o Encode(v.m[i][2], level + 1)],
                        ",\n" \o Indent(level + 1))
                \o "\n" \o Indent(level) \o "}"

dumps(obj) == Encode(obj, 0)

(***************************************************************************)
(* json.loads(s).  A parse result is [ok, v, i]: whether a value was read, *)
(* the value, and the index after it.  `strict` selects the grammar of     *)
(* RFC 8259; Python's decoder (strict = FALSE) also reads the constant NaN.*)
(* Numbers are the non-negative integers.                                  *)
(***************************************************************************)
Fail == [ok |-> FALSE, v |-> None, i |-> 0]
Ok(v, i) == [ok |-> TRUE, v |-> v, i |-> i]

RECURSIVE SkipWs(_, _)
SkipWs(s, i) == IF i <= Len(s) /\ At(s, i) \in Whitespace
                THEN SkipWs(s, i + 1) ELSE i

\* the number of consecutive backslashes that end at index j, counted no
\* further back than index i
RECURSIVE BackslashRun(_, _, _)
BackslashRun(s, i, j) ==
    IF j >= i /\ At(s, j) = "\\" THEN 1 + BackslashRun(s, i, j - 1) ELSE 0

\* in a string body that starts at index i: index j holds a quote that ends
\* the string, resp. a backslash that starts an escape
ClosesString(s, i, j) == At(s, j) = "\"" /\ BackslashRun(s, i, j - 1) % 2 = 0
StartsEscape(s, i, j) == At(s, j) = "\\" /\ BackslashRun(s, i, j - 1) % 2 = 0

ShortEscapes == {"\"", "\\", "/", "n", "r", "t"}

Unescape(e) == CASE e = "n" -> "\n"
                 [] e = "r" -> "\r"
                 [] e = "t" -> "\t"
                 [] OTHER -> e

\* index j belongs to the escape that starts before it
InEscape(s, i, j) ==
    \/ j - 1 >= i /\ StartsEscape(s, i, j - 1)
    \/ \E k \in 2..5 : /\ j - k >= i
                       /\ StartsEscape(s, i, j - k)
                       /\ At(s, j - k + 1) = "u"

\* the escape that starts at index j is one the decoder reads
GoodEscape(s, j) ==
    \/ At(s, j + 1) \in ShortEscapes
    \/ /\ At(s, j + 1) = "u"
       /\ j + 5 <= Len(s)
       /\ \E c \in NonAscii : Hex4(c) = SubSeq(s, j + 2, j + 5)

\* what index j of a string body that starts at i contributes to the string
Piece(s, i, j) ==
    IF InEscape(s, i, j) THEN ""
    ELSE IF ~StartsEscape(s, i, j) THEN At(s, j)
    ELSE IF At(s, j + 1) = "u" THEN Unhex4(SubSeq(s, j + 2, j + 5))
    ELSE Unescape(At(s, j + 1))

RECURSIVE Pieces(_, _, _, _)
Pieces(s, i, lo, hi) ==
    IF lo > hi THEN ""
    ELSE IF lo = hi THEN Piece(s, i, lo)
    ELSE Pieces(s, i, lo, (lo + hi) \div 2) \o Pieces(s, i, (lo + hi) \div 2 + 1, hi)

\* the string whose body starts at index i (after the opening quote): it ends
\* at the first unescaped quote, holds no raw control character and only
\* escapes the decoder reads
ScanString(s, i) ==
    IF ~\E j \in i..Len(s) : ClosesString(s, i, j) THEN Fail
    ELSE LET q == CHOOSE j \in i..Len(s) :
                    /\ ClosesString(s, i, j)
                    /\ \A k \in i..(j - 1) : ~ClosesString(s, i, k)
         IN IF \E j \in i..(q - 1) :
                 \/ At(s, j) \in Control
                 \/ StartsEscape(s, i, j) /\ ~GoodEscape(s, j)
            THEN Fail
            ELSE IF \A j \in i..(q - 1) : At(s, j) # "\\"
            THEN Ok(Str(SubSeq(s, i, q - 1)), q + 1)
            ELSE Ok(Str(Pieces(s, i, i, q - 1)), q + 1)

RECURSIVE ScanDigits(_, _, _)
ScanDigits(s, i, n) ==
    IF i <= Len(s) /\ At(s, i) \in DigitChars
    THEN ScanDigits(s, i + 1, 10 * n + DigitVal(At(s, i)))
    ELSE Ok(Num(n), i)

RECURSIVE ScanValue(_, _, _)
RECURSIVE ScanMembers(_, _, _, _)
RECURSIVE ScanItems(_, _, _, _)

\* after "{" or ",": a key, ":", a value, then "," or "}"
ScanMembers(s, i0, m, strict) ==
    LET i == SkipWs(s, i0) IN
    IF ~StartsWith(s, i, "\"") THEN Fail
    ELSE LET k == ScanString(s, i + 1) IN
      IF ~k.ok THEN Fail
      ELSE LET j == SkipWs(s, k.i) IN
        IF ~StartsWith(s, j, ":") THEN Fail
        ELSE LET val == ScanValue(s, SkipWs(s, j + 1), strict) IN
          IF ~val.ok THEN Fail
          ELSE LET e == SkipWs(s, val.i)
                   m2 == SetItem(m, k.v.s, val.v) IN
            IF StartsWith(s, e, "}") THEN Ok(Dict(m2), e + 1)
            ELSE IF StartsWith(s, e, ",") THEN ScanMembers(s, e + 1, m2, strict)
            ELSE Fail

\* after "[" or ",": a value, then "," or "]"
ScanItems(s, i0, l, strict) ==
    LET val == ScanValue(s, SkipWs(s, i0), strict) IN
    IF ~val.ok THEN Fail
    ELSE LET e == SkipWs(s, val.i) IN
      IF StartsWith(s, e, "]") THEN Ok(List(Append(l, val.v)), e + 1)
      ELSE IF StartsWith(s, e, ",") THEN ScanItems(s, e + 1, Append(l, val.v), strict)
      ELSE Fail

ScanValue(s, i, strict) ==
    IF i > Len(s) THEN Fail
    ELSE LET c == At(s, i) IN
      IF c = "\"" THEN ScanString(s, i + 1)
      ELSE IF c = "{" THEN
        IF StartsWith(s, SkipWs(s, i + 1), "}")
        THEN Ok(Dict(<<>>), SkipWs(s, i + 1) + 1)
        ELSE ScanMembers(s, i + 1, <<>>, strict)
      ELSE IF c = "[" THEN
        IF StartsWith(s, SkipWs(s, i + 1), "]")
        THEN Ok(List(<<>>), SkipWs(s, i + 1) + 1)
        ELSE ScanItems(s, i + 1, <<>>, strict)
      ELSE IF StartsWith(s, i, "null") THEN Ok(None, i + 4)
      ELSE IF StartsWith(s, i, "true") THEN Ok(True, i + 4)
      ELSE IF StartsWith(s, i, "false") THEN Ok(False, i + 5)
      ELSE IF StartsWith(s, i, "NaN") /\ ~strict THEN Ok(NaN, i + 3)
      ELSE IF c = "0" THEN Ok(Num(0), i + 1)
      ELSE IF c \in DigitChars THEN ScanDigits(s, i, 0)
      ELSE Fail

\* the whole text is one value between optional whitespace
Decode(s, strict) ==
    LET r == ScanValue(s, SkipWs(s, 1), strict) IN
    IF r.ok /\ SkipWs(s, r.i) = Len(s) + 1 THEN r ELSE Fail

loads(s) == Decode(s, FALSE)

\* the text is a JSON document in the sense of RFC 8259
IsJson(s) == Decode(s, TRUE).ok

(***************************************************************************)
(* Python's evaluation of obj["k"] and obj[0] on a decoded JSON value: the *)
(* value, or the name of the exception raised.                             *)
(***************************************************************************)
Got(v) == [exc |-> "", v |-> v]
Raised(e) == [exc |-> e, v |-> None]

GetItem(obj, k) ==
    IF obj.t = "dict"
    THEN IF k \in Keys(obj) THEN Got(Lookup(obj, k)) ELSE Raised("KeyError")
    ELSE Raised("TypeError")

\* variant: an empty list yields a package with empty fields
GetItem0_default(obj) ==
    CASE obj.t = "list" ->
           IF Len(obj.l) = 0
           THEN Got(Dict(<< <<"version", Str("")>>, <<"description", Str("")>> >>))
           ELSE Got(obj.l[1])
      [] obj.t = "str" ->
           IF Len(obj.s) = 0 THEN Raised("IndexError") ELSE Got(Str(At(obj.s, 1)))
      [] obj.t = "dict" -> Raised("KeyError")
      [] OTHER -> Raised("TypeError")

\* variant: the last entry of the list instead of the first
GetItem0_last(obj) ==
    CASE obj.t = "list" ->
           IF Len(obj.l) = 0 THEN Raised("IndexError") ELSE Got(obj.l[Len(obj.l)])
      [] obj.t = "str" ->
           IF Len(obj.s) = 0 THEN Raised("IndexError") ELSE Got(Str(At(obj.s, 1)))
      [] obj.t = "dict" -> Raised("KeyError")
      [] OTHER -> Raised("TypeError")

GetItem0(obj) ==
    CASE obj.t = "list" ->
           IF Len(obj.l) = 0 THEN Raised("IndexError") ELSE Got(obj.l[1])
      [] obj.t = "str" ->
           IF Len(obj.s) = 0 THEN Raised("IndexError") ELSE Got(Str(At(obj.s, 1)))
      [] obj.t = "dict" -> Raised("KeyError")
      [] OTHER -> Raised("TypeError")

\* str(v), as an f-string formats a replacement field (scalars)
Format(v) ==
    CASE v.t = "str" -> v.s
      [] v.t = "None" -> "None"
      [] v.t = "True" -> "True"
      [] v.t = "False" -> "False"
      [] v.t = "int" -> Digits(v.n)
      [] v.t = "nan" -> "nan"

(***************************************************************************)
(* The script's expressions.                                               *)
(***************************************************************************)
tmaze_url == "https://github.com/ur-fault/tmaze"

ReleaseAssets(ver) == tmaze_url \o "/releases/download/" \o Format(ver)

\* variant: the asset name carries no version
DownloadUrl_unversioned(assets, ver) ==
    assets \o "/tmaze-win-x86_64.exe#/tmaze.exe"

DownloadUrl(assets, ver) ==
    assets \o "/tmaze-" \o Format(ver) \o "-win-x86_64.exe#/tmaze.exe"

ScoopManifest(assets) == assets \o "/tmaze.json"

\* the manifest with its "architecture" entry replaced
WithArchitecture(ver, arch, description) ==
    Dict(<< <<"version", ver>>,
            <<"architecture", arch>>,
            <<"description", description>>,
            <<"homepage", Str(tmaze_url)>> >>)

\* variant: the description entry holds the version
Manifest_desc(ver, url, description) ==
    WithArchitecture(ver,
        Dict(<< <<"64bit", Dict(<< <<"url", Str(url)>> >>)>>,
                <<"checkver",
                  Dict(<< <<"url", Str("{scoop_manifest}")>>,
                          <<"jsonpath", Str("$.version")>> >>)>>,
                <<"autoupdate", Dict(<<>>)>> >>),
        ver)

\* variant: the JSON path is formatted with the version
Manifest_jsonpath(ver, url, description) ==
    WithArchitecture(ver,
        Dict(<< <<"64bit", Dict(<< <<"url", Str(url)>> >>)>>,
                <<"checkver",
                  Dict(<< <<"url", Str("{scoop_manifest}")>>,
                          <<"jsonpath", Str("$." \o Format(ver))>> >>)>>,
                <<"autoupdate", Dict(<<>>)>> >>),
        description)

\* variant: no autoupdate entry
Manifest_autoupdate(ver, url, description) ==
    WithArchitecture(ver,
        Dict(<< <<"64bit", Dict(<< <<"url", Str(url)>> >>)>>,
                <<"checkver",
                  Dict(<< <<"url", Str("{scoop_manifest}")>>,
                          <<"jsonpath", Str("$.version")>> >>)>> >>),
        description)

\* variant: the checkver URL is the formatted scoop_manifest
Manifest_checkver(ver, url, description) ==
    WithArchitecture(ver,
        Dict(<< <<"64bit", Dict(<< <<"url", Str(url)>> >>)>>,
                <<"checkver",
                  Dict(<< <<"url", Str(ScoopManifest(ReleaseAssets(ver)))>>,
                          <<"jsonpath", Str("$.version")>> >>)>>,
                <<"autoupdate", Dict(<<>>)>> >>),
        description)

Manifest(ver, url, description) ==
    Dict(<< <<"version", ver>>,
            <<"architecture",
              Dict(<< <<"64bit", Dict(<< <<"url", Str(url)>> >>)>>,
                      <<"checkver",
                        Dict(<< <<"url", Str("{scoop_manifest}")>>,
                                <<"jsonpath", Str("$.version")>> >>)>>,
                      <<"autoupdate", Dict(<<>>)>> >>)>>,
            <<"description", description>>,
            <<"homepage", Str(tmaze_url)>> >>)

\* variant: the print statement runs again
Following_reprint(line) ==
    CASE line = "run" -> "wait"
      [] line = "wait" -> "decode"
      [] line = "decode" -> "loads"
      [] line = "loads" -> "packages"
      [] line = "packages" -> "version"
      [] line = "version" -> "desc"
      [] line = "desc" -> "urls"
      [] line = "urls" -> "manifest"
      [] line = "manifest" -> "print"
      [] line = "print" -> "print"

\* the statement that runs after `line` completes without raising
Following(line) ==
    CASE line = "run" -> "wait"
      [] line = "wait" -> "decode"
      [] line = "decode" -> "loads"
      [] line = "loads" -> "packages"
      [] line = "packages" -> "version"
      [] line = "version" -> "desc"
      [] line = "desc" -> "urls"
      [] line = "urls" -> "manifest"
      [] line = "manifest" -> "print"
      [] line = "print" -> "exit"

(***************************************************************************)
(* The environment: what `cargo metadata` does when the script runs it.    *)
(* Its standard output is a byte string, held as the text it decodes to    *)
(* and whether the bytes are well-formed UTF-8.                            *)
(***************************************************************************)
VersionChars == {"1", ".", "\""}
DescChars == {"d", "\\", "\n", "é"}

VersionValues ==
    {Str(s) : s \in Strings(VersionChars, MaxVersionLen)}
      \cup {Str("1.2.3"), None, Num(12), NaN}

DescValues ==
    {Str(s) : s \in Strings(DescChars, MaxDescLen)} \cup {None, True, NaN}

\* serde_json's compact output: no whitespace, non-ASCII characters as they are
EscapeRaw(c) ==
    CASE c = "\"" -> "\\\""
      [] c = "\\" -> "\\\\"
      [] c = "\n" -> "\\n"
      [] c = "\r" -> "\\r"
      [] c = "\t" -> "\\t"
      [] OTHER -> c

RECURSIVE RawBody(_)
RawBody(s) ==
    IF Len(s) = 0 THEN ""
    ELSE IF Len(s) = 1 THEN EscapeRaw(s)
    ELSE RawBody(SubSeq(s, 1, Len(s) \div 2)) \o RawBody(From(s, Len(s) \div 2 + 1))

RECURSIVE Compact(_)
Compact(v) ==
    CASE v.t = "str" -> "\"" \o RawBody(v.s) \o "\""
      [] v.t = "None" -> "null"
      [] v.t = "True" -> "true"
      [] v.t = "False" -> "false"
      [] v.t = "int" -> Digits(v.n)
      [] v.t = "nan" -> "NaN"
      [] v.t = "list" ->
           "[" \o Join([i \in 1..Len(v.l) |-> Compact(v.l[i])], ",") \o "]"
      [] v.t = "dict" ->
           "{" \o Join([i \in 1..Len(v.m) |->
                          "\"" \o RawBody(v.m[i][1]) \o "\":" \o Compact(v.m[i][2])],
                       ",") \o "}"

\* the shapes of a metadata document whose first package has version v
\* and description d
Package(v, d) ==
    Dict(<< <<"name", Str("tmaze")>>, <<"version", v>>, <<"description", d>>,
            <<"license", Str("MIT")>> >>)

Documents(v, d) ==
    { Dict(<< <<"packages",
                List(<< Dict(<< <<"version", v>>, <<"description", d>> >>) >>)>> >>),
      Dict(<< <<"packages", List(<< Package(v, d) >>)>>,
              <<"version", Num(1)>>,
              <<"target_directory", Str("/target")>> >>),
      Dict(<< <<"packages",
                List(<< Package(v, d), Package(Str("0.9"), Str("other")) >>)>> >>) }

GoodDocuments(vs, ds) == UNION {Documents(v, d) : v \in vs, d \in ds}

BadDocuments ==
    { Dict(<< <<"packages", List(<<>>)>> >>),
      Dict(<< <<"packages", List(<<>>)>>, <<"version", Num(1)>> >>),
      Dict(<< <<"packages", List(<< Dict(<< <<"description", Str("d")>> >>) >>)>> >>),
      Dict(<< <<"packages", List(<< Dict(<< <<"version", Str("1.2.3")>> >>) >>)>> >>),
      Dict(<< <<"packages", List(<< Dict(<<>>) >>)>> >>),
      Dict(<< <<"packages", List(<< Str("tmaze") >>)>> >>),
      Dict(<< <<"packages", List(<< List(<<>>) >>)>> >>),
      Dict(<< <<"packages", Str("tmaze")>> >>),
      Dict(<< <<"packages", Str("")>> >>),
      Dict(<< <<"packages", Dict(<<>>)>> >>),
      Dict(<< <<"packages", None>> >>),
      Dict(<< <<"version", Str("1.2.3")>>, <<"description", Str("d")>> >>),
      Dict(<<>>),
      List(<<>>),
      None }

MalformedTexts ==
    { "", "error: could not find Cargo.toml", "{\"packages\":[",
      "{\"packages\":[{\"version\":\"1.2.3\",\"description\":\"d\"}]} }" }

Bytes(text) == [utf8 |-> TRUE, text |-> text]
BadBytes == [utf8 |-> FALSE, text |-> ""]

ExitCodes == {0, 101}

Command(rc, bytes) == [installed |-> TRUE, returncode |-> rc, stdout |-> bytes]
NotInstalled == [installed |-> FALSE, returncode |-> 127, stdout |-> Bytes("")]

\* every version with every description in the smallest document printed by
\* a successful command; the other shapes, the documents that lack
\* something and the texts that are no document under both exit codes
Inputs ==
    {Command(0, Bytes(Compact(
         Dict(<< <<"packages",
                   List(<< Dict(<< <<"version", v>>, <<"description", d>> >>) >>)>> >>)))) :
       v \in VersionValues, d \in DescValues}
      \cup {Command(rc, Bytes(Compact(doc))) :
              rc \in ExitCodes,
              doc \in GoodDocuments({Str("1.2.3"), Str("1\""), NaN},
                                    {Str("d"), Str("é"), None})
                        \cup BadDocuments}
      \cup {Command(rc, Bytes(text)) : rc \in ExitCodes, text \in MalformedTexts}
      \cup {Command(rc, BadBytes) : rc \in ExitCodes}
      \cup {NotInstalled}

\* a second, smaller input space for comparing two runs of the script
PairInputs ==
    {Command(0, Bytes(Compact(doc))) :
       doc \in GoodDocuments({Str("1.2.3"), Str("1")}, {Str("d"), None})
                 \cup {Dict(<< <<"packages", List(<<>>)>> >>), Dict(<<>>)}}

(***************************************************************************)
(* State of one run of the script.                                         *)
(***************************************************************************)
VARIABLES
    cargo,           \* what the external command does in this run
    pc,              \* the statement about to run, or "done" / "crashed"
    child,           \* the subprocess: "none", "running", "exited"
    proc,            \* the CompletedProcess returned by run_process
    text,            \* proc.stdout.decode("utf-8")
    metadata,
    tmaze_metadata,
    version,
    desc,
    release_assets,
    download_url,
    scoop_manifest,
    manifest,
    out,             \* the script's standard output
    exc,             \* the uncaught exception, "" if none
    exit_code,       \* the script's exit status, -1 while it runs
    log,             \* the statements executed so far, in order
    prev             \* command and output of the previous run, if any

vars == <<cargo, pc, child, proc, text, metadata, tmaze_metadata, version,
          desc, release_assets, download_url, scoop_manifest, manifest, out,
          exc, exit_code, log, prev>>

Unset == [t |-> "unset"]
NoProc == [returncode |-> -1, stdout |-> Bytes("")]
NoPrev == [ran |-> FALSE, cargo |-> NotInstalled, out |-> "", exit_code |-> -1]

Start(cmd) ==
    /\ cargo = cmd
    /\ pc = "run"
    /\ child = "none"
    /\ proc = NoProc
    /\ text = ""
    /\ metadata = Unset
    /\ tmaze_metadata = Unset
    /\ version = Unset
    /\ desc = Unset
    /\ release_assets = ""
    /\ download_url = ""
    /\ scoop_manifest = ""
    /\ manifest = Unset
    /\ out = ""
    /\ exc = ""
    /\ exit_code = -1
    /\ log = <<>>

Init == /\ \E cmd \in Inputs : Start(cmd)
        /\ prev = NoPrev

InitPair == /\ \E cmd \in PairInputs : Start(cmd)
            /\ prev = NoPrev

\* an exception nobody catches: traceback on stderr, exit status 1
Raise(line, e) ==
    /\ pc' = "crashed"
    /\ exc' = e
    /\ exit_code' = 1
    /\ log' = Append(log, line)

Continue(line) ==
    /\ pc' = Following(line)
    /\ log' = Append(log, line)
    /\ UNCHANGED <<exc, exit_code>>

\* run_process([...], capture_output=True): start the child
RunProcess ==
    /\ pc = "run"
    /\ IF cargo.installed
       THEN child' = "running" /\ Continue("run")
       ELSE child' = child /\ Raise("run", "FileNotFoundError")
    /\ UNCHANGED <<cargo, proc, text, metadata, tmaze_metadata, version, desc,
                   release_assets, download_url, scoop_manifest, manifest,
                   out, prev>>

\* run_process blocks until the child has exited; check is not set, so the
\* exit status is stored and nothing is raised
WaitProcess ==
    /\ pc = "wait"
    /\ child = "running"
    /\ child' = "exited"
    /\ proc' = [returncode |-> cargo.returncode, stdout |-> cargo.stdout]
    /\ Continue("wait")
    /\ UNCHANGED <<cargo, text, metadata, tmaze_metadata, version, desc,
                   release_assets, download_url, scoop_manifest, manifest,
                   out, prev>>

\* .stdout.decode("utf-8")
DecodeStdout ==
    /\ pc = "decode"
    /\ IF proc.stdout.utf8
       THEN text' = proc.stdout.text /\ Continue("decode")
       ELSE text' = text /\ Raise("decode", "UnicodeDecodeError")
    /\ UNCHANGED <<cargo, child, proc, metadata, tmaze_metadata, version, desc,
                   release_assets, download_url, scoop_manifest, manifest,
                   out, prev>>

\* metadata = loads(...)
LoadMetadata ==
    /\ pc = "loads"
    /\ LET r == loads(text) IN
         IF r.ok
         THEN metadata' = r.v /\ Continue("loads")
         ELSE metadata' = metadata /\ Raise("loads", "JSONDecodeError")
    /\ UNCHANGED <<cargo, child, proc, text, tmaze_metadata, version, desc,
                   release_assets, download_url, scoop_manifest, manifest,
                   out, prev>>

\* tmaze_metadata = metadata["packages"][0]
SelectPackage ==
    /\ pc = "packages"
    /\ LET packages == GetItem(metadata, "packages")
           first == IF packages.exc = "" THEN GetItem0(packages.v) ELSE packages
       IN IF first.exc = ""
          THEN tmaze_metadata' = first.v /\ Continue("packages")
          ELSE tmaze_metadata' = tmaze_metadata /\ Raise("packages", first.exc)
    /\ UNCHANGED <<cargo, child, proc, text, metadata, version, desc,
                   release_assets, download_url, scoop_manifest, manifest,
                   out, prev>>

\* version = tmaze_metadata["version"]
ReadVersion ==
    /\ pc = "version"
    /\ LET r == GetItem(tmaze_metadata, "version") IN
         IF r.exc = ""
         THEN version' = r.v /\ Continue("version")
         ELSE version' = version /\ Raise("version", r.exc)
    /\ UNCHANGED <<cargo, child, proc, text, metadata, tmaze_metadata, desc,
                   release_assets, download_url, scoop_manifest, manifest,
                   out, prev>>

\* desc = tmaze_metadata["description"]
ReadDesc ==
    /\ pc = "desc"
    /\ LET r == GetItem(tmaze_metadata, "description") IN
         IF r.exc = ""
         THEN desc' = r.v /\ Continue("desc")
         ELSE desc' = desc /\ Raise("desc", r.exc)
    /\ UNCHANGED <<cargo, child, proc, text, metadata, tmaze_metadata, version,
                   release_assets, download_url, scoop_manifest, manifest,
                   out, prev>>

\* release_assets, download_url and scoop_manifest
FormatUrls ==
    /\ pc = "urls"
    /\ release_assets' = ReleaseAssets(version)
    /\ download_url' = DownloadUrl(release_assets', version)
    /\ scoop_manifest' = ScoopManifest(release_assets')
    /\ Continue("urls")
    /\ UNCHANGED <<cargo, child, proc, text, metadata, tmaze_metadata, version,
                   desc, manifest, out, prev>>

\* manifest = {...}
BuildManifest ==
    /\ pc = "manifest"
    /\ manifest' = Manifest(version, download_url, desc)
    /\ Continue("manifest")
    /\ UNCHANGED <<cargo, child, proc, text, metadata, tmaze_metadata, version,
                   desc, release_assets, download_url, scoop_manifest, out,
                   prev>>

\* print(dumps(manifest, indent=4))
PrintManifest ==
    /\ pc = "print"
    /\ out' = out \o dumps(manifest) \o "\n"
    /\ Continue("print")
    /\ UNCHANGED <<cargo, child, proc, text, metadata, tmaze_metadata, version,
                   desc, release_assets, download_url, scoop_manifest,
                   manifest, prev>>

\* end of the script
Exit ==
    /\ pc = "exit"
    /\ pc' = "done"
    /\ exit_code' = 0
    /\ UNCHANGED <<cargo, child, proc, text, metadata, tmaze_metadata, version,
                   desc, release_assets, download_url, scoop_manifest,
                   manifest, out, exc, log, prev>>

Next ==
    \/ RunProcess
    \/ WaitProcess
    \/ DecodeStdout
    \/ LoadMetadata
    \/ SelectPackage
    \/ ReadVersion
    \/ ReadDesc
    \/ FormatUrls
    \/ BuildManifest
    \/ PrintManifest
    \/ Exit

Spec == Init /\ [][Next]_vars

\* the script is run again, on whatever the command prints this time
Rerun ==
    /\ pc \in {"done", "crashed"}
    /\ prev' = [ran |-> TRUE, cargo |-> cargo, out |-> out,
                exit_code |-> exit_code]
    /\ cargo' \in PairInputs
    /\ pc' = "run"
    /\ child' = "none"
    /\ proc' = NoProc
    /\ text' = ""
    /\ metadata' = Unset
    /\ tmaze_metadata' = Unset
    /\ version' = Unset
    /\ desc' = Unset
    /\ release_assets' = ""
    /\ download_url' = ""
    /\ scoop_manifest' = ""
    /\ manifest' = Unset
    /\ out' = ""
    /\ exc' = ""
    /\ exit_code' = -1
    /\ log' = <<>>

NextPair == Next \/ Rerun

SpecPair == InitPair /\ [][NextPair]_vars

Terminated == pc \in {"done", "crashed"}

(***************************************************************************)
(* What the command printed, read independently of the script's variables: *)
(* whether it is JSON text, whether it has a "packages" list, how many     *)
(* entries the list has, whether the first has both fields, and the fields.*)
(***************************************************************************)
Field(d, k) == IF d.t = "dict" /\ k \in Keys(d) THEN Lookup(d, k) ELSE Unset

Input(cmd) ==
    LET r == IF cmd.installed /\ cmd.stdout.utf8 THEN loads(cmd.stdout.text) ELSE Fail
        packages == Field(r.v, "packages")
        has == r.ok /\ packages.t = "list"
        first == IF has /\ Len(packages.l) > 0 THEN packages.l[1] ELSE Unset
    IN [json |-> r.ok,
        document |-> r.v,
        has_packages |-> has,
        count |-> IF has THEN Len(packages.l) ELSE 0,
        is_record |-> first.t = "dict",
        version |-> Field(first, "version"),
        description |-> Field(first, "description")]

WellFormed(inp) == inp.version # Unset /\ inp.description # Unset

EmptyPackages(inp) == inp.has_packages /\ inp.count = 0

(***************************************************************************)
(* What the script printed, read back from its standard output.            *)
(***************************************************************************)
Printed == out # ""

Output(printed) ==
    LET r == loads(printed)
        architecture == Field(r.v, "architecture")
    IN [json |-> r.ok,
        keys |-> IF r.v.t = "dict" THEN Keys(r.v) ELSE {},
        version |-> Field(r.v, "version"),
        description |-> Field(r.v, "description"),
        homepage |-> Field(r.v, "homepage"),
        architecture |-> IF architecture.t = "dict" THEN Keys(architecture) ELSE {},
        url |-> Field(Field(architecture, "64bit"), "url"),
        checkver_url |-> Field(Field(architecture, "checkver"), "url"),
        jsonpath |-> Field(Field(architecture, "checkver"), "jsonpath"),
        autoupdate |-> Field(architecture, "autoupdate")]

(***************************************************************************)
(* C1: for every metadata document whose packages list is non-empty and    *)
(* whose first entry has version and description, the run ends normally    *)
(* and the emitted manifest's top-level version and description are those  *)
(* of packages[0].                                                         *)
(***************************************************************************)
C1_VersionAndDescriptionCopied ==
    Terminated =>
        LET inp == Input(cargo)
            m == Output(out)
        IN WellFormed(inp) =>
             /\ pc = "done"
             /\ Printed
             /\ m.json
             /\ m.keys = {"version", "architecture", "description", "homepage"}
             /\ m.version = inp.version
             /\ m.description = inp.description

C1_Witness ==
    /\ pc = "done"
    /\ Input(cargo).version = Str("1.2.3")
    /\ Input(cargo).description = Str("d")
    /\ Output(out).version = Str("1.2.3")
    /\ Output(out).description = Str("d")

(***************************************************************************)
(* C2: for every version string v of packages[0], the emitted              *)
(* architecture.64bit.url is the repository URL, "/releases/download/", v, *)
(* "/tmaze-", v, "-win-x86_64.exe#/tmaze.exe": v fills exactly two places  *)
(* of the URL, with the same value.                                        *)
(***************************************************************************)
C2_DownloadUrl ==
    Terminated =>
        LET inp == Input(cargo) IN
        (WellFormed(inp) /\ inp.version.t = "str") =>
            LET v == inp.version.s
                url == Output(out).url
            IN /\ Printed
               /\ url = Str("https://github.com/ur-fault/tmaze" \o "/releases/download/"
                              \o v \o "/tmaze-" \o v \o "-win-x86_64.exe#/tmaze.exe")
               /\ Len(url.s) = Len("https://github.com/ur-fault/tmaze/releases/download/")
                                 + Len("/tmaze-") + Len("-win-x86_64.exe#/tmaze.exe")
                                 + 2 * Len(v)

C2_Witness ==
    /\ pc = "done"
    /\ Input(cargo).version = Str("1.2.3")
    /\ Output(out).url =
         Str("https://github.com/ur-fault/tmaze/releases/download/1.2.3/tmaze-1.2.3-win-x86_64.exe#/tmaze.exe")

(***************************************************************************)
(* C3: when the packages list of the metadata document is empty, nothing   *)
(* is ever written to standard output and the run ends in an uncaught      *)
(* IndexError with a non-zero exit status.                                 *)
(***************************************************************************)
C3_EmptyPackagesFatal ==
    (Printed \/ manifest # Unset \/ Terminated) =>
        (EmptyPackages(Input(cargo)) =>
            /\ out = ""
            /\ manifest = Unset
            /\ pc = "crashed"
            /\ exc = "IndexError"
            /\ exit_code = 1)

C3_Witness ==
    /\ pc = "crashed"
    /\ exc = "IndexError"
    /\ EmptyPackages(Input(cargo))
    /\ log = <<"run", "wait", "decode", "loads", "packages">>
    /\ out = ""

(***************************************************************************)
(* C4: every failure - the command missing, the command failing (non-zero  *)
(* exit status), its output not being JSON text, or packages[0] lacking    *)
(* version or description - ends the run in an uncaught exception with     *)
(* nothing printed.                                                        *)
(***************************************************************************)
CommandMissing(cmd) == ~cmd.installed
CommandFailed(cmd) == cmd.installed /\ cmd.returncode # 0
MalformedOutput(cmd) == cmd.installed /\ ~Input(cmd).json
MissingField(cmd) ==
    LET inp == Input(cmd) IN
    inp.count > 0 /\ inp.is_record /\ ~WellFormed(inp)

C4_EveryFailureFatal ==
    (Printed \/ Terminated) =>
        ((\/ CommandMissing(cargo)
          \/ CommandFailed(cargo)
          \/ MalformedOutput(cargo)
          \/ MissingField(cargo)) =>
            /\ out = ""
            /\ pc = "crashed"
            /\ exc # ""
            /\ exit_code = 1)

(***************************************************************************)
(* C5: in every emitted manifest architecture.checkver.jsonpath is the     *)
(* string "$.version".                                                     *)
(***************************************************************************)
C5_JsonPathLiteral ==
    Printed =>
        LET m == Output(out) IN
        m.json /\ m.jsonpath = Str("$.version")

C5_Witness ==
    /\ pc = "done"
    /\ Input(cargo).version = Str("1.")
    /\ Input(cargo).description = None
    /\ Output(out).jsonpath = Str("$.version")

(***************************************************************************)
(* C6: in every emitted manifest the architecture mapping has an           *)
(* autoupdate key whose value is the empty mapping.                        *)
(***************************************************************************)
C6_AutoupdateEmpty ==
    Printed =>
        LET m == Output(out) IN
        /\ m.json
        /\ "autoupdate" \in m.architecture
        /\ m.autoupdate = Dict(<<>>)

C6_Witness ==
    /\ pc = "done"
    /\ Input(cargo).version = Str("..")
    /\ Input(cargo).description = Str("d")
    /\ Output(out).architecture = {"64bit", "checkver", "autoupdate"}
    /\ Output(out).autoupdate = Dict(<<>>)

(***************************************************************************)
(* C7: in every emitted manifest architecture.checkver.url is the literal  *)
(* text "{scoop_manifest}", never the scoop_manifest URL                   *)
(* <repo-url>/releases/download/<version>/tmaze.json the script computed.  *)
(***************************************************************************)
C7_CheckverUrlLiteral ==
    Printed =>
        LET m == Output(out) IN
        /\ m.json
        /\ m.checkver_url = Str("{scoop_manifest}")
        /\ m.checkver_url # Str(scoop_manifest)
        /\ scoop_manifest = "https://github.com/ur-fault/tmaze/releases/download/"
                              \o Format(Input(cargo).version) \o "/tmaze.json"

C7_Witness ==
    /\ pc = "done"
    /\ scoop_manifest = "https://github.com/ur-fault/tmaze/releases/download/1.2.3/tmaze.json"
    /\ Output(out).checkver_url = Str("{scoop_manifest}")

(***************************************************************************)
(* C8: whatever manifest the script builds, the text it prints is valid    *)
(* JSON (RFC 8259) and parses back to the manifest that was serialized.    *)
(***************************************************************************)
C8_RoundTrip ==
    Printed =>
        /\ IsJson(out)
        /\ loads(out).ok
        /\ loads(out).v = manifest

(***************************************************************************)
(* C9: the steps of a run are strictly ordered: the command is started     *)
(* once and has exited before its output is parsed, parsing precedes the   *)
(* extraction of the fields, and the manifest is printed at most once,     *)
(* only after version and description were both extracted.                 *)
(***************************************************************************)
Count(line) == Cardinality({i \in 1..Len(log) : log[i] = line})
Ran(line) == \E i \in 1..Len(log) : log[i] = line
Before(a, b) == \E i, j \in 1..Len(log) : i < j /\ log[i] = a /\ log[j] = b

C9_StepsOrdered ==
    /\ Count("run") <= 1
    /\ Count("wait") <= 1
    /\ pc # "run" => Count("run") = 1
    /\ Ran("loads") => (child = "exited" /\ Before("run", "wait")
                          /\ Before("wait", "loads"))
    /\ Ran("version") => (Before("loads", "version") /\ metadata # Unset)
    /\ Ran("desc") => Before("loads", "desc")
    /\ Count("print") <= 1
    /\ Printed <=> Ran("print")
    /\ Ran("print") => /\ Before("version", "print")
                       /\ Before("desc", "print")
                       /\ version # Unset
                       /\ desc # Unset
                       /\ exc = ""
                       /\ out = dumps(manifest) \o "\n"

C9_Witness ==
    /\ pc = "done"
    /\ log = <<"run", "wait", "decode", "loads", "packages", "version", "desc",
               "urls", "manifest", "print">>
    /\ Printed

(***************************************************************************)
(* C10: two metadata documents that agree on the version and description   *)
(* of packages[0] give the same output, whatever else they contain, and    *)
(* the homepage is the repository URL in both.                             *)
(***************************************************************************)
C10_OnlyVersionAndDescription ==
    (prev.ran /\ Terminated) =>
        LET a == Input(prev.cargo)
            b == Input(cargo)
        IN (/\ WellFormed(a)
            /\ WellFormed(b)
            /\ a.version = b.version
            /\ a.description = b.description) =>
               /\ Printed
               /\ out = prev.out
               /\ exit_code = prev.exit_code
               /\ Output(out).homepage = Str("https://github.com/ur-fault/tmaze")
               /\ Output(prev.out).homepage = Str("https://github.com/ur-fault/tmaze")

C10_Witness ==
    /\ prev.ran
    /\ pc = "done"
    /\ Printed
    /\ out = prev.out
    /\ LET a == Input(prev.cargo)
           b == Input(cargo)
       IN /\ WellFormed(a)
          /\ WellFormed(b)
          /\ a.count = 1
          /\ b.count = 2
          /\ Field(a.document, "version") = Num(1)
          /\ a.version = b.version
          /\ a.description = b.description

=============================================================================
